---- MODULE Spec2Model ----
(***************************************************************************)
(* Graph layout and selection subsystem of outlier-scout.                  *)
(*                                                                         *)
(* The model covers the Home page state (tab, graph view, selected id,     *)
(* mainstream filter), the per-engine React state (observed dimensions),   *)
(* and the scene every engine's main effect builds (drawn nodes, derived   *)
(* edges, node strokes, click-handler closure, simulation).                *)
(*                                                                         *)
(*   Spec        the Home page driving the four engines it mounts.         *)
(*   SpecLayout  each of the five engine components driven through its     *)
(*               props over a family of datasets.                          *)
(*   SpecPointer one mounted engine under the pointer: hover, drag, ticks  *)
(*               and redraws.                                              *)
(*   SpecZoom    one mounted engine with clicks, zoom gestures and the     *)
(*               auto-fit timer.                                           *)
(***************************************************************************)
EXTENDS Integers, Sequences, FiniteSets, TLC

VARIABLES
    data,              \* GraphData: nodes, edges, recommendations
    tab,               \* Home: "people" | "network"
    graphView,         \* Home: "similarity" | "clusters" | "bipartite" | "rings"
    selectedId,        \* Home: selected id or Null
    filterMainstream,  \* Home: hide accounts with >= 1M followers
    engine,            \* the mounted engine component, or NoEngine
    dimensions,        \* the engine's useState dimensions
    observed,          \* last contentRect the ResizeObserver reported, or NoSize
    scene,             \* what the engine's last main-effect pass built
    prevScene,         \* what the rings pass before that placed (EmptyScene if none)
    layoutRuns,        \* main-effect passes completed since the engine mounted
    lastClick,         \* the node click just handled and its onSelectNode call
    timers,            \* pending setTimeout auto-fit callbacks
    simulations,       \* force simulations of cleaned-up passes: how many still
                       \* run, and whether the step just taken stopped a running one
    tooltips,          \* tooltip divs the engines appended to document.body
    expandedId,        \* NetworkList: the expanded card's id, or Null
    hover,             \* the node under the pointer, the tooltip's followers text
                       \* and the edges the hover listeners raised
    drag,              \* the d3-drag gesture in progress: its node, and whether
                       \* the pass that bound its listeners was cleaned up
    pinned,            \* <<id, where>> for every drawn node with fx / fy set
    moved,             \* the nodes whose x / y (data) and whose group transform
                       \* (drawn) a drag listener set to the pointer position
    zoom               \* the transform of the zoom container: "identity",
                       \* "fit" (auto-fit) or "user" (wheel / pan)

vars == <<data, tab, graphView, selectedId, filterMainstream, engine,
          dimensions, observed, scene, prevScene, layoutRuns, lastClick, timers,
          simulations, tooltips, expandedId, hover, drag, pinned, moved, zoom>>

---------------------------------------------------------------------------
(* Bounds of the model *)

\* longest recommendation list drawn from the recommendation templates
MaxRecs == 3
\* copies of each co-follow template in the long recommendation lists
MaxCopies == 6
\* main-effect passes followed per mount
MaxLayoutRuns == 2
\* ticks after which a running simulation has cooled below its stopping threshold
SettleTicks == 2
\* nodes the drag listeners have moved to the pointer since the last pass
MaxMoved == 2

---------------------------------------------------------------------------
(* Program constants *)

\* followers_count at or above which an account is "mainstream"
MainstreamFollowers == 1000000
\* shared hub followers needed for a similarity edge
SimilarityThreshold == 5
\* co-following recommendations needed for a hub co-follow edge
CoFollowThreshold == 10
\* hub_count thresholds of the concentric tiers
Tier0MinHub == 40
Tier1MinHub == 30
\* synchronous ticks of the bipartite seeding simulation
BipartiteTicks == 300
\* stands for the IEEE Infinity of RINGS[0].maxHub: above every hub_count
Infinity == 1000000000

Null == "null"
NoEngine == "none"
NoSize == <<-1, -1>>

\* graphViewLabels of the Home page
GraphViews == {"similarity", "clusters", "bipartite", "rings"}
\* the exported engine components
Engines == GraphViews \cup {"network"}

---------------------------------------------------------------------------
(* Sequence helpers standing for the JavaScript array built-ins *)

SeqToSet(s) == {s[i] : i \in DOMAIN s}

\* Array.from(new Set(arr)): distinct elements in first-insertion order
Distinct(s) ==
    LET firsts == SelectSeq([i \in DOMAIN s |-> i],
                            LAMBDA i : \A k \in 1..(i - 1) : s[k] # s[i])
    IN [p \in DOMAIN firsts |-> s[firsts[p]]]

\* the iterations <<i, j>> of "for i in 1..n { for j in 1..m { ... } }", in order
LoopPairs(n, m) == [p \in 1..(n * m) |-> <<((p - 1) \div m) + 1, ((p - 1) % m) + 1>>]

Min(a, b) == IF a <= b THEN a ELSE b
Max(a, b) == IF a >= b THEN a ELSE b

\* all sequences without repetition of at most n elements of S
RECURSIVE InjSeqs(_, _)
InjSeqs(S, n) ==
    IF n = 0 THEN {<<>>}
    ELSE LET shorter == InjSeqs(S, n - 1)
         IN shorter \cup UNION {{Append(s, x) : x \in S \ SeqToSet(s)} : s \in shorter}

---------------------------------------------------------------------------
(* Datasets.  Ids are Twitter handles; IdOrder lists the handles the        *)
(* datasets use in the order JavaScript's default string sort gives them.   *)

IdOrder == <<"c", "ghost", "h1", "h2", "h3", "h4", "h5", "h6", "h7", "hx",
             "r1", "r2", "r3", "r4", "r5", "r6", "r7", "r8">>

IdRank(id) == CHOOSE i \in DOMAIN IdOrder : IdOrder[i] = id

\* the length of the longest followed_by list of recs
LongestFollowedBy(recs) ==
    LET lens == {Len(recs[i].followed_by) : i \in DOMAIN recs} \cup {0}
    IN CHOOSE m \in lens : \A l \in lens : l <= m

Node(id, type, followers, hubCount) ==
    [id |-> id, type |-> type, followers_count |-> followers, hub_count |-> hubCount]

Rec(username, followers, hubCount, followedBy) ==
    [username |-> username, followers_count |-> followers,
     hub_count |-> hubCount, followed_by |-> followedBy]

Edge(source, target, type) == [source |-> source, target |-> target, type |-> type]

RecTemplates == {
    Rec("r1", 500,     45, <<"h1", "h2", "h3", "h4", "h5">>),
    Rec("r2", 999999,  40, <<"h1", "h2", "h3", "h4", "h6">>),
    Rec("r3", 1000000, 39, <<"h7", "h5", "h4", "h3", "h2", "h1">>),
    Rec("r4", 2500000, 30, <<"h6", "h5", "h4", "h3", "h2", "h1", "h7">>),
    Rec("r5", 0,       29, <<>>),
    Rec("r7", 800,     45, <<"h5", "h4", "h3", "h2", "h1", "h6">>) }

HubNodes == <<
    Node("h1", "hub", 1000, 0),
    Node("h2", "hub", 999999, 0),
    Node("h3", "hub", 1000000, 0),
    Node("h4", "hub", 2000, 0),
    Node("h5", "hub", 30, 0),
    Node("h6", "hub", 7000000, 0),
    Node("h7", "hub", 0, 0) >>

RecNodeOf(r) == Node(r.username, "recommendation", r.followers_count, r.hub_count)

AllNodes ==
    <<Node("c", "center", 5000000, 0)>> \o HubNodes \o
    <<RecNodeOf(Rec("r1", 500, 45, <<>>)), RecNodeOf(Rec("r2", 999999, 40, <<>>)),
      RecNodeOf(Rec("r3", 1000000, 39, <<>>)), RecNodeOf(Rec("r4", 2500000, 30, <<>>)),
      RecNodeOf(Rec("r7", 800, 45, <<>>))>>

\* data.edges, with endpoints ("ghost") that no node list holds
EdgeList == <<
    Edge("c", "h1", "ethan_follows"),
    Edge("c", "h3", "ethan_follows"),
    Edge("h1", "r1", "hub_follows"),
    Edge("h3", "r3", "hub_follows"),
    Edge("h1", "r4", "hub_follows"),
    Edge("h3", "r2", "hub_follows"),
    Edge("h1", "ghost", "hub_follows"),
    Edge("ghost", "r1", "hub_follows") >>

GraphData(nodes, edges, recs) == [nodes |-> nodes, edges |-> edges, recommendations |-> recs]

\* a recs followed by h1,h2 then b recs followed by h2,h1,h3; the tenth and
\* later ones are mainstream
CoFollowRecs(a, b) ==
    [i \in 1..(a + b) |->
        Rec("u" \o ToString(i), 100000 * i, 25,
            IF i <= a THEN <<"h1", "h2">> ELSE <<"h2", "h1", "h3">>)]

\* the datasets the engine components are laid out on
LayoutData ==
    {GraphData(AllNodes, EdgeList, recs) : recs \in InjSeqs(RecTemplates, MaxRecs)}
    \cup {GraphData(SubSeq(AllNodes, 1, k), EdgeList,
                    <<Rec("r1", 500, 45, <<"h1", "h2", "h3", "h4", "h5">>),
                      Rec("r3", 1000000, 39, <<"h7", "h5", "h4", "h3", "h2", "h1">>),
                      Rec("r6", 1500, 20, <<"h2", "h1", "hx">>)>>) :
             k \in 0..Len(AllNodes)}
    \cup {GraphData(HubNodes, <<>>, CoFollowRecs(a, b)) :
             a \in 0..MaxCopies, b \in 0..MaxCopies}

---------------------------------------------------------------------------
(* Filter pipeline and edge derivations, engine by engine *)

\* recs.filter((r) => r.followers_count < 1_000_000) when the flag is set
IsBelowMainstream(followers) == followers < MainstreamFollowers

FilterRecs(recs, fm) ==
    IF fm THEN SelectSeq(recs, LAMBDA r : IsBelowMainstream(r.followers_count)) ELSE recs

\* faulty variant: an off-by-one comparison keeps a recommendation node with
\* exactly 1,000,000 followers
NetworkKeepsNodeOffByOne(n, fm) ==
    ~fm \/ n.type # "recommendation" \/ n.followers_count <= MainstreamFollowers

\* NetworkGraph: the surviving node id set
NetworkKeepsNode(n, fm) ==
    ~fm \/ n.type # "recommendation" \/ IsBelowMainstream(n.followers_count)

FilteredNodeIds(d, fm) ==
    {d.nodes[i].id : i \in {k \in DOMAIN d.nodes : NetworkKeepsNode(d.nodes[k], fm)}}

NetworkNodes(d, fm) == SelectSeq(d.nodes, LAMBDA n : n.id \in FilteredNodeIds(d, fm))

\* faulty variant: only the source endpoint is looked up
NetworkEdgesSourceOnly(d, fm) ==
    SelectSeq(d.edges, LAMBDA e : e.source \in FilteredNodeIds(d, fm))

NetworkEdges(d, fm) ==
    SelectSeq(d.edges, LAMBDA e : e.source \in FilteredNodeIds(d, fm)
                                  /\ e.target \in FilteredNodeIds(d, fm))

\* RecSimilarityGraph: followedByMap, username -> Set(followed_by); a later
\* node of the same username overwrites an earlier one
FollowedByMap(nodes) ==
    [u \in {nodes[i].username : i \in DOMAIN nodes} |->
        LET last == CHOOSE i \in DOMAIN nodes :
                        /\ nodes[i].username = u
                        /\ \A k \in DOMAIN nodes : nodes[k].username = u => k <= i
        IN Distinct(nodes[last].followed_by)]

\* the k-loop: shared++ for every member of smallerArr that the larger set has
CountShared(smallerArr, larger) ==
    Cardinality({k \in DOMAIN smallerArr : smallerArr[k] \in larger})

\* faulty variant: the membership test is made against the iterated set itself
SharedHubsSelfTest(setA, setB) ==
    LET smaller == IF Len(setA) <= Len(setB) THEN setA ELSE setB
    IN CountShared(smaller, SeqToSet(smaller))

SharedHubs(setA, setB) ==
    LET smaller == IF Len(setA) <= Len(setB) THEN setA ELSE setB
        larger == IF Len(setA) <= Len(setB) THEN setB ELSE setA
    IN CountShared(smaller, SeqToSet(larger))

\* faulty variant: a strict comparison drops the pairs sharing exactly 5 hubs
IsSimilarStrict(shared) == shared > SimilarityThreshold

IsSimilar(shared) == shared >= SimilarityThreshold

\* the i < j double loop over the nodes
SimilarityEdges(nodes) ==
    LET fbm == FollowedByMap(nodes)
        shared(q) == SharedHubs(fbm[nodes[q[1]].username], fbm[nodes[q[2]].username])
        pushed == SelectSeq(LoopPairs(Len(nodes), Len(nodes)),
                            LAMBDA q : q[1] < q[2] /\ IsSimilar(shared(q)))
    IN [p \in DOMAIN pushed |->
          [source |-> nodes[pushed[p][1]].username,
           target |-> nodes[pushed[p][2]].username,
           weight |-> shared(pushed[p])]]

\* faulty variant: the pair is keyed in list order, without the sort
PairKeyUnsorted(a, b) == <<a, b>>

\* HubClustersGraph.hubEdges: [hubs[i], hubs[j]].sort().join("|")
PairKey(a, b) == IF IdRank(a) <= IdRank(b) THEN <<a, b>> ELSE <<b, a>>

\* the iterations <<r, i, j>> of the loops over data.recommendations and the
\* i < j pairs of each followed_by list, in order
PairVisits(recs) ==
    LET hubs(r) == recs[r].followed_by
        inner == LoopPairs(LongestFollowedBy(recs), LongestFollowedBy(recs))
        all == [p \in 1..(Len(recs) * Len(inner)) |->
                  <<((p - 1) \div Len(inner)) + 1,
                    inner[((p - 1) % Len(inner)) + 1][1],
                    inner[((p - 1) % Len(inner)) + 1][2]>>]
    IN SelectSeq(all, LAMBDA v : v[2] < v[3] /\ v[3] <= Len(hubs(v[1])))

\* hubPairWeights after the loops: every iteration adds one to its key, and the
\* Map keeps its keys in the order they were first set
HubPairWeights(recs) ==
    LET visits == PairVisits(recs)
        keyOf == [p \in DOMAIN visits |->
                    PairKey(recs[visits[p][1]].followed_by[visits[p][2]],
                            recs[visits[p][1]].followed_by[visits[p][3]])]
        keys == Distinct(keyOf)
    IN [p \in DOMAIN keys |->
          [key |-> keys[p],
           weight |-> Cardinality({q \in DOMAIN keyOf : keyOf[q] = keys[p]})]]

IsCoFollowed(weight) == weight >= CoFollowThreshold

HubEdges(recs) ==
    LET kept == SelectSeq(HubPairWeights(recs), LAMBDA e : IsCoFollowed(e.weight))
    IN [i \in DOMAIN kept |->
          [source |-> kept[i].key[1], target |-> kept[i].key[2], weight |-> kept[i].weight]]

\* HubClustersGraph main effect: hub nodes, minus mainstream hubs when the flag is set
ClusterHubNodes(d, fm) ==
    LET hubNodes == SelectSeq(d.nodes, LAMBDA n : n.type = "hub")
    IN IF fm THEN SelectSeq(hubNodes, LAMBDA n : IsBelowMainstream(n.followers_count))
       ELSE hubNodes

\* faulty variant: the pair weights are counted over the filtered list
ClusterEdgesOfFilteredRecs(d, fm) ==
    LET hubIdSet == {n.id : n \in SeqToSet(ClusterHubNodes(d, fm))}
    IN SelectSeq(HubEdges(FilterRecs(d.recommendations, fm)),
                 LAMBDA e : e.source \in hubIdSet /\ e.target \in hubIdSet)

ClusterEdges(d, fm) ==
    LET hubIdSet == {n.id : n \in SeqToSet(ClusterHubNodes(d, fm))}
    IN SelectSeq(HubEdges(d.recommendations),
                 LAMBDA e : e.source \in hubIdSet /\ e.target \in hubIdSet)

\* BipartiteGraph data prep
BipartiteHubNodes(d) == SelectSeq(d.nodes, LAMBDA n : n.type = "hub")

BipartiteEdges(d, fm) ==
    LET filteredRecs == FilterRecs(d.recommendations, fm)
        hubIdSet == {n.id : n \in SeqToSet(BipartiteHubNodes(d))}
        recIdSet == {r.username : r \in SeqToSet(filteredRecs)}
        pushed == SelectSeq(LoopPairs(Len(filteredRecs), LongestFollowedBy(filteredRecs)),
                            LAMBDA q : /\ q[2] <= Len(filteredRecs[q[1]].followed_by)
                                       /\ filteredRecs[q[1]].followed_by[q[2]] \in hubIdSet
                                       /\ filteredRecs[q[1]].username \in recIdSet)
    IN [p \in DOMAIN pushed |->
          [source |-> filteredRecs[pushed[p][1]].followed_by[pushed[p][2]],
           target |-> filteredRecs[pushed[p][1]].username]]

---------------------------------------------------------------------------
(* ConcentricRingsGraph: closed-form tier placement *)

RINGS == <<
    [radius |-> 150, minHub |-> 40, maxHub |-> Infinity, nodeRadius |-> <<16, 22>>],
    [radius |-> 280, minHub |-> 30, maxHub |-> 40,       nodeRadius |-> <<10, 15>>],
    [radius |-> 420, minHub |-> 0,  maxHub |-> 30,       nodeRadius |-> <<6, 10>>] >>

\* faulty variant: a strict comparison sends hub_count 40 to the middle tier
TierOfStrict(hubCount) ==
    IF hubCount > Tier0MinHub THEN 0
    ELSE IF hubCount >= Tier1MinHub THEN 1
    ELSE 2

\* the ring index (0, 1, 2) a recommendation is pushed to
TierOf(hubCount) ==
    IF hubCount >= Tier0MinHub THEN 0
    ELSE IF hubCount >= Tier1MinHub THEN 1
    ELSE 2

Bucket(recs, ringIndex) == SelectSeq(recs, LAMBDA r : TierOf(r.hub_count) = ringIndex)

\* faulty variant: a sort that puts an element before the earlier equal ones
SortTierUnstable(tier) ==
    LET place(i) == Cardinality({k \in DOMAIN tier : tier[k].hub_count > tier[i].hub_count})
                    + Cardinality({k \in (i + 1)..Len(tier) :
                                      tier[k].hub_count = tier[i].hub_count})
                    + 1
    IN [p \in DOMAIN tier |-> tier[CHOOSE i \in DOMAIN tier : place(i) = p]]

\* tier.sort((a, b) => b.hub_count - a.hub_count): Array.prototype.sort is
\* stable, so an element lands after the larger ones and the earlier equal ones
SortTier(tier) ==
    LET place(i) == Cardinality({k \in DOMAIN tier : tier[k].hub_count > tier[i].hub_count})
                    + Cardinality({k \in 1..(i - 1) : tier[k].hub_count = tier[i].hub_count})
                    + 1
    IN [p \in DOMAIN tier |-> tier[CHOOSE i \in DOMAIN tier : place(i) = p]]

\* computeNodeRadius, in tenths of a pixel, with t in tenths.  Tier 0 has
\* hubRange = Infinity - 40, so (hubCount - hubBase) / hubRange is 0.
computeNodeRadius(hubCount, ringIndex) ==
    LET ring == RINGS[ringIndex + 1]
        minR == ring.nodeRadius[1]
        maxR == ring.nodeRadius[2]
        hubRange == IF ring.minHub = 0 THEN 10 ELSE ring.maxHub - ring.minHub
        hubBase == IF ring.minHub = 0 THEN 20 ELSE ring.minHub
        tTenths == Min(10, Max(0, ((hubCount - hubBase) * 10) \div hubRange))
    IN minR * 10 + tTenths * (maxR - minR)

\* faulty variant: the ring starts at a slot that moves from pass to pass
PositionTierDrifting(tierNodes, ringIndex, width, height) ==
    [i \in DOMAIN tierNodes |->
        [username |-> tierNodes[i].username,
         hub_count |-> tierNodes[i].hub_count,
         ringIndex |-> ringIndex,
         slot |-> (i - 1 + layoutRuns) % Len(tierNodes),
         of |-> Len(tierNodes),
         radius |-> RINGS[ringIndex + 1].radius,
         r |-> computeNodeRadius(tierNodes[i].hub_count, ringIndex),
         width |-> width,
         height |-> height]]

\* a positioned node: the angle is 2*pi*slot/of - pi/2 around the centre
\* (width/2, height/2) at the ring's radius
PositionTier(tierNodes, ringIndex, width, height) ==
    [i \in DOMAIN tierNodes |->
        [username |-> tierNodes[i].username,
         hub_count |-> tierNodes[i].hub_count,
         ringIndex |-> ringIndex,
         slot |-> IF Len(tierNodes) = 1 THEN 0 ELSE i - 1,
         of |-> Len(tierNodes),
         radius |-> RINGS[ringIndex + 1].radius,
         r |-> computeNodeRadius(tierNodes[i].hub_count, ringIndex),
         width |-> width,
         height |-> height]]

PositionedNodes(d, fm, width, height) ==
    LET recs == FilterRecs(d.recommendations, fm)
    IN PositionTier(SortTier(Bucket(recs, 0)), 0, width, height)
       \o PositionTier(SortTier(Bucket(recs, 1)), 1, width, height)
       \o PositionTier(SortTier(Bucket(recs, 2)), 2, width, height)

---------------------------------------------------------------------------
(* The scene an engine's main effect builds *)

\* contentRect sizes the ResizeObserver reports
Sizes == {<<0, 0>>, <<800, 600>>, <<400, 300>>}

Dims(w, h) == [width |-> w, height |-> h]

\* useState({ width: 0, height: 0 }); the bipartite engine starts at 800 x 800
InitialDimensions(e) == IF e = "bipartite" THEN Dims(800, 800) ELSE Dims(0, 0)

EmptyScene ==
    [drawn |-> FALSE, nodes |-> <<>>, edges |-> <<>>, maxWeight |-> 0, stroke |-> <<>>,
     positionedNodes |-> <<>>, boundSelectedId |-> Null,
     simulation |-> "none", alphaTarget |-> 0, ticks |-> 0, width |-> 0, height |-> 0]

NoClick == [op |-> "none"]

Ids(nodes) == [i \in DOMAIN nodes |-> nodes[i].id]
Usernames(recs) == [i \in DOMAIN recs |-> recs[i].username]

\* the data bound to the node groups, in draw order
SceneNodes(e, d, fm) ==
    CASE e = "network" -> Ids(NetworkNodes(d, fm))
      [] e = "similarity" -> Usernames(FilterRecs(d.recommendations, fm))
      [] e = "clusters" -> Ids(ClusterHubNodes(d, fm))
      [] e = "bipartite" ->
            Ids(BipartiteHubNodes(d)) \o Usernames(FilterRecs(d.recommendations, fm))
      [] e = "rings" -> Usernames(FilterRecs(d.recommendations, fm))

\* the data bound to the edge lines
SceneEdges(e, d, fm) ==
    CASE e = "network" -> NetworkEdges(d, fm)
      [] e = "similarity" -> SimilarityEdges(FilterRecs(d.recommendations, fm))
      [] e = "clusters" -> ClusterEdges(d, fm)
      [] e = "bipartite" -> BipartiteEdges(d, fm)
      [] e = "rings" -> <<>>

\* the engines that scale edge styling and link forces by weight / maxWeight
WeightedEngines == {"similarity", "clusters"}

Weights(edges) == {edges[i].weight : i \in DOMAIN edges}

\* the largest of a non-empty set of numbers
MaxOf(S) == CHOOSE m \in S : \A x \in S : x <= m

\* faulty variant: Math.max(...weights) without the floor, -Infinity on no edges
MaxWeightNoFloor(e, edges) ==
    IF edges = <<>> THEN -Infinity ELSE MaxOf(Weights(edges))

\* RecSimilarityGraph: d3.max(edges, (e) => e.weight) || 1, where d3.max of
\* no values is undefined; HubClustersGraph: Math.max(1, ...weights)
MaxWeight(e, edges) ==
    LET largest == IF edges = <<>> THEN 0 ELSE MaxOf(Weights(edges))
    IN IF e = "similarity" THEN (IF largest = 0 THEN 1 ELSE largest)
       ELSE Max(1, largest)

\* faulty variant: the click never deselects
handleClickAlwaysSelects(sel, id) == id

\* onSelectNode(d.id === selectedId ? null : d.id)
handleClick(sel, id) == IF id = sel THEN Null ELSE id

\* the stroke a circle is drawn with: only the bipartite engine consults
\* selectedIdRef.current while drawing
DrawnStroke(e, id, sel) ==
    IF e = "bipartite" /\ id = sel THEN "selected" ELSE "default"

\* the selection-highlight effect: restroke every drawn node
Highlight(sc, sel) ==
    [sc EXCEPT !.stroke =
        [n \in DOMAIN sc.stroke |-> IF n = sel THEN "selected" ELSE "default"]]

\* the highlight effect depends on [selectedId]
HighlightIfChanged(sc, sel, changed) ==
    IF "selectedId" \in changed THEN Highlight(sc, sel) ELSE sc

\* dependency lists of the main effect; handleClick is re-created whenever
\* selectedId changes, the bipartite engine reads refs instead
MainEffectDeps(e) ==
    IF e = "bipartite" THEN {"data", "dimensions", "filterMainstream"}
    ELSE {"data", "filterMainstream", "selectedId", "dimensions"}

AllDeps == {"data", "filterMainstream", "selectedId", "dimensions"}

\* faulty variant: the guard's test is inverted
MainEffectGuardInverted(e, dims) == e = "bipartite" \/ dims.width = 0

\* if (!svgRef.current || dimensions.width === 0) return
MainEffectGuard(e, dims) == e = "bipartite" \/ dims.width # 0

RunsMain(e, dims, changed) ==
    changed \cap MainEffectDeps(e) # {} /\ MainEffectGuard(e, dims)

\* the scene a completed pass leaves: the data bound to the drawn elements
Draw(e, nodes, edges, positionedNodes, dims, sel) ==
    [drawn |-> TRUE,
     nodes |-> nodes,
     edges |-> edges,
     maxWeight |-> IF e \in WeightedEngines THEN MaxWeight(e, edges) ELSE 0,
     stroke |-> [n \in SeqToSet(nodes) |-> DrawnStroke(e, n, sel)],
     positionedNodes |-> positionedNodes,
     boundSelectedId |-> sel,
     simulation |-> CASE e = "rings" -> "none"
                      [] e = "bipartite" -> "stopped"
                      [] OTHER -> "running",
     alphaTarget |-> 0,
     ticks |-> IF e = "bipartite" THEN BipartiteTicks ELSE 0,
     width |-> dims.width,
     height |-> dims.height]

MainEffect(e, d, fm, dims, sel) ==
    Draw(e, SceneNodes(e, d, fm), SceneEdges(e, d, fm),
         IF e = "rings" THEN PositionedNodes(d, fm, dims.width, dims.height) ELSE <<>>,
         dims, sel)

\* faulty variant: the cleanup leaves the simulation running
CleanupKeepsRunning(sc) == sc

\* the cleanup a completed pass returned: simulation.stop()
Cleanup(sc) ==
    IF sc.drawn /\ sc.simulation = "running" THEN [sc EXCEPT !.simulation = "stopped"]
    ELSE sc

\* one React commit of the mounted engine: cleanups of the effects whose
\* dependencies changed, then their bodies in declaration order
Commit(e, sc, d, fm, dims, sel, changed) ==
    HighlightIfChanged(
        IF RunsMain(e, dims, changed) THEN MainEffect(e, d, fm, dims, sel)
        ELSE IF changed \cap MainEffectDeps(e) # {} THEN Cleanup(sc)
        ELSE sc,
        sel, changed)

\* clearTimeout(timer) in the main effect's cleanup: only the bipartite engine
\* keeps the handle setTimeout returns
ClearsTimer(e) == e = "bipartite"

\* timers holds "live" while the auto-fit callback of the pass that built the
\* scene is pending, and "stale" while a callback of a cleaned-up pass is
TimersAfterCleanup(e, sc, t) ==
    IF sc.drawn /\ "live" \in t
    THEN IF ClearsTimer(e) THEN t \ {"live"} ELSE (t \ {"live"}) \cup {"stale"}
    ELSE t

\* setTimeout(() => svg.transition()...call(zoom.transform, ...), delay) at
\* the end of every completed pass
TimersAfterCommit(e, sc, dims, changed, t) ==
    LET cleaned == IF changed \cap MainEffectDeps(e) # {}
                   THEN TimersAfterCleanup(e, sc, t) ELSE t
    IN IF RunsMain(e, dims, changed) THEN cleaned \cup {"live"} ELSE cleaned

NoSimulations == [detached |-> 0, halted |-> FALSE]

\* a step that runs no cleanup stops nothing
NothingHalted(sims) == [sims EXCEPT !.halted = FALSE]

\* the simulation of the pass being cleaned up: it keeps ticking only if the
\* cleanup did not stop it
SimulationsAfterCleanup(sc, sims) ==
    IF sc.drawn
    THEN [detached |-> IF Cleanup(sc).simulation = "running"
                       THEN sims.detached + 1 ELSE sims.detached,
          halted |-> sc.simulation = "running" /\ Cleanup(sc).simulation = "stopped"]
    ELSE NothingHalted(sims)

SimulationsAfterCommit(e, sc, changed, sims) ==
    IF changed \cap MainEffectDeps(e) # {} THEN SimulationsAfterCleanup(sc, sims)
    ELSE NothingHalted(sims)

NoTooltips == [anonymous |-> 0, bipartite |-> 0]

\* d3.select("body").append("div") in every pass; the bipartite engine first
\* looks for the div with id "bipartite-tooltip" and reuses it
AcquireTooltip(e, t) ==
    IF e = "bipartite" THEN [t EXCEPT !.bipartite = 1]
    ELSE [t EXCEPT !.anonymous = @ + 1]

\* faulty variant: the cleanup leaves the tooltip in the body
TooltipStays(e, t) == t

\* tooltip.remove() in the main effect's cleanup
RemoveTooltip(e, t) ==
    IF e = "bipartite" THEN [t EXCEPT !.bipartite = 0]
    ELSE [t EXCEPT !.anonymous = @ - 1]

TooltipsAfterCleanup(e, sc, t) == IF sc.drawn THEN RemoveTooltip(e, t) ELSE t

TooltipsAfterCommit(e, sc, dims, changed, t) ==
    LET cleaned == IF changed \cap MainEffectDeps(e) # {}
                   THEN TooltipsAfterCleanup(e, sc, t) ELSE t
    IN IF RunsMain(e, dims, changed) THEN AcquireTooltip(e, cleaned) ELSE cleaned

\* the array a name of the main effect refers to: recs is data.recommendations
\* itself unless the mainstream filter built a new array; tiers, nodes and
\* edges are arrays of copies the pass created
ArrayOf(e, name, fm) ==
    IF name = "recs" /\ e \in {"rings", "similarity"} /\ ~fm
    THEN "data.recommendations" ELSE name

\* faulty variant: the rings pass sorts recs before bucketing
SortedArrayRecs(e) == IF e = "rings" THEN "recs" ELSE "none"

\* the array a pass sorts in place: for (const tier of tiers) tier.sort(...)
SortedArray(e) == IF e = "rings" THEN "tiers" ELSE "none"

\* the dataset after a pass of engine e: an in-place sort reorders the
\* dataset's own array only if the sorted name refers to it
DataAfterPass(e, d, fm) ==
    IF ArrayOf(e, SortedArray(e), fm) = "data.recommendations"
    THEN [d EXCEPT !.recommendations = SortTier(@)]
    ELSE d

DataAfterCommit(e, d, fm, dims, changed) ==
    IF RunsMain(e, dims, changed) THEN DataAfterPass(e, d, fm) ELSE d

\* the engines whose svg root has a click listener: root.on("click", ...)
HasCanvasListener(e) == e = "bipartite"

\* faulty variant: the node listeners let the click bubble to the root
StopsPropagationNever(e) == FALSE

\* event.stopPropagation() in the node click listeners
StopsPropagation(e) == e = "bipartite"

\* the onSelectNode calls one click on node n produces, in order: the node
\* listener's toggle, then the root listener's null if the event reaches it
NodeClickCalls(e, seen, n) ==
    <<handleClick(seen, n)>>
        \o (IF HasCanvasListener(e) /\ ~StopsPropagation(e) THEN <<Null>> ELSE <<>>)

\* NetworkList's effect on [selectedId]: if (selectedId) setExpandedId(selectedId)
ExpandedAfterEffect(sel, changed, exp) ==
    IF "selectedId" \in changed /\ sel # Null THEN sel ELSE exp

\* the selectedId a node's click listener compares with
ClickSees(e, sc, sel) == IF e = "bipartite" THEN sel ELSE sc.boundSelectedId

NoHover == [node |-> Null, followers |-> "", edges |-> {}]

\* (n / unit).toFixed(digits) for a non-negative integer n and digits 0 or 1:
\* the numeral with that many fraction digits nearest to the quotient, the
\* larger one when two are equally near.  With one digit the quotients that
\* end in 5 at the second digit are not binary fractions and JavaScript
\* rounds their nearest double; the datasets hold no such count.
ToFixed(n, unit, digits) ==
    LET scale == IF digits = 0 THEN 1 ELSE 10
        q == (2 * n * scale + unit) \div (2 * unit)
    IN IF digits = 0 THEN ToString(q)
       ELSE ToString(q \div 10) \o "." \o ToString(q % 10)

\* the fraction digits each engine's formatter gives to thousands
ThousandsDigits(e) == IF e = "bipartite" THEN 1 ELSE 0

\* formatFollowers of engine e (inline in NetworkGraph's tooltip)
formatFollowers(e, n) ==
    IF n >= 1000000 THEN ToFixed(n, 1000000, 1) \o "M"
    ELSE IF n >= 1000 THEN ToFixed(n, 1000, ThousandsDigits(e)) \o "K"
    ELSE ToString(n)

\* d.followers_count of the datum bound to drawn node id: a data.nodes entry,
\* or a data.recommendations entry in the engines that draw recommendations
FollowersCount(e, d, id) ==
    IF \/ e \in {"similarity", "rings"}
       \/ e = "bipartite" /\ id \notin SeqToSet(Ids(BipartiteHubNodes(d)))
    THEN (CHOOSE r \in SeqToSet(d.recommendations) : r.username = id).followers_count
    ELSE (CHOOSE n \in SeqToSet(d.nodes) : n.id = id).followers_count

\* the indices of the edges with an end at node id
IncidentEdges(edges, id) ==
    {i \in DOMAIN edges : edges[i].source = id \/ edges[i].target = id}

\* faulty variant: an edge is indexed under its source only
AdjMapSourceOnly(edges) ==
    [id \in {edges[i].source : i \in DOMAIN edges} |->
        {i \in DOMAIN edges : edges[i].source = id}]

\* BipartiteGraph's adjMap: edges.forEach((e, i) => ...) adds i under
\* e.source and under e.target, creating an entry at the first use of an id
AdjMap(edges) ==
    [id \in {edges[i].source : i \in DOMAIN edges}
                \cup {edges[i].target : i \in DOMAIN edges} |->
        {i \in DOMAIN edges : edges[i].source = id \/ edges[i].target = id}]

\* the edges a mouseenter / mouseover on node id raises: the bipartite
\* engine looks the node up in adjMap and leaves the opacities alone when it
\* has no entry; the force-directed engines test every link's ends
RaisedEdges(e, edges, id, raised) ==
    CASE e = "bipartite" ->
            IF id \in DOMAIN AdjMap(edges) THEN AdjMap(edges)[id] ELSE raised
      [] e = "rings" -> {}
      [] OTHER -> IncidentEdges(edges, id)

\* showTooltip and the mouseenter listeners
showTooltip(e, d, edges, h, id) ==
    [node |-> id,
     followers |-> formatFollowers(e, FollowersCount(e, d, id)),
     edges |-> RaisedEdges(e, edges, id, h.edges)]

\* faulty variant: the tooltip is hidden and the edges are left as they are
hideTooltipKeepsEdges(h) == [h EXCEPT !.node = Null, !.followers = ""]

\* hideTooltip and the mouseleave listeners: tooltip opacity 0, every edge
\* back to its resting opacity
hideTooltip(h) == NoHover

NoDrag == [node |-> Null, stale |-> FALSE]

NoMoved == [data |-> {}, drawn |-> {}]

\* a pass removes every element of the svg and the tooltip div, and draws new
\* ones: no node is hovered until the pointer moves again
HoverAfterCommit(e, dims, changed, h) ==
    IF RunsMain(e, dims, changed) THEN NoHover ELSE h

\* d3-drag listens on the window until the button is released: a gesture
\* that began on elements a pass removed goes on with that pass's closure
DragAfterPass(dr) == IF dr.node # Null THEN [dr EXCEPT !.stale = TRUE] ELSE dr

DragAfterCommit(e, dims, changed, dr) ==
    IF RunsMain(e, dims, changed) THEN DragAfterPass(dr) ELSE dr

\* every pass simulates fresh copies of the nodes: none has fx / fy
PinnedAfterCommit(e, dims, changed, p) ==
    IF RunsMain(e, dims, changed) THEN {} ELSE p

MovedAfterCommit(e, dims, changed, m) ==
    IF RunsMain(e, dims, changed) THEN NoMoved ELSE m

\* svg.append("g"): the new zoom container has no transform
ZoomAfterCommit(e, dims, changed, z) ==
    IF RunsMain(e, dims, changed) THEN "identity" ELSE z

Rerender(fm, dims, sel, changed) ==
    /\ hover' = HoverAfterCommit(engine, dims, changed, hover)
    /\ drag' = DragAfterCommit(engine, dims, changed, drag)
    /\ pinned' = PinnedAfterCommit(engine, dims, changed, pinned)
    /\ moved' = MovedAfterCommit(engine, dims, changed, moved)
    /\ zoom' = ZoomAfterCommit(engine, dims, changed, zoom)
    /\ scene' = Commit(engine, scene, data, fm, dims, sel, changed)
    /\ prevScene' = IF RunsMain(engine, dims, changed) /\ engine = "rings" THEN scene
                    ELSE prevScene
    /\ layoutRuns' = IF RunsMain(engine, dims, changed) THEN layoutRuns + 1 ELSE layoutRuns
    /\ timers' = TimersAfterCommit(engine, scene, dims, changed, timers)
    /\ simulations' = SimulationsAfterCommit(engine, scene, changed, simulations)
    /\ tooltips' = TooltipsAfterCommit(engine, scene, dims, changed, tooltips)
    /\ data' = DataAfterCommit(engine, data, fm, dims, changed)

MountEngineAs(e) ==
    /\ engine' = e
    /\ hover' = NoHover
    /\ drag' = DragAfterPass(drag)
    /\ pinned' = {}
    /\ moved' = NoMoved
    /\ zoom' = "identity"
    /\ dimensions' = InitialDimensions(e)
    /\ observed' = NoSize
    /\ scene' = Commit(e, EmptyScene, data, filterMainstream, InitialDimensions(e),
                       selectedId, AllDeps)
    /\ prevScene' = EmptyScene
    /\ layoutRuns' = IF RunsMain(e, InitialDimensions(e), AllDeps) THEN 1 ELSE 0
    /\ timers' = TimersAfterCommit(e, EmptyScene, InitialDimensions(e), AllDeps,
                                   TimersAfterCleanup(engine, scene, timers))
    /\ simulations' = SimulationsAfterCleanup(scene, simulations)
    /\ tooltips' = TooltipsAfterCommit(e, EmptyScene, InitialDimensions(e), AllDeps,
                                       TooltipsAfterCleanup(engine, scene, tooltips))
    /\ data' = DataAfterCommit(e, data, filterMainstream, InitialDimensions(e), AllDeps)

UnmountEngineAs ==
    /\ engine' = NoEngine
    /\ hover' = NoHover
    /\ drag' = DragAfterPass(drag)
    /\ pinned' = {}
    /\ moved' = NoMoved
    /\ zoom' = "identity"
    /\ dimensions' = Dims(0, 0)
    /\ observed' = NoSize
    /\ scene' = EmptyScene
    /\ prevScene' = EmptyScene
    /\ layoutRuns' = 0
    /\ timers' = TimersAfterCleanup(engine, scene, timers)
    /\ simulations' = SimulationsAfterCleanup(scene, simulations)
    /\ tooltips' = TooltipsAfterCleanup(engine, scene, tooltips)
    /\ data' = data

---------------------------------------------------------------------------
(* Events *)

\* ResizeObserver callback: a contentRect with a zero side is ignored
ResizeObserved(s) ==
    /\ engine # NoEngine
    /\ s # observed
    /\ layoutRuns < MaxLayoutRuns
    /\ observed' = s
    /\ IF s[1] > 0 /\ s[2] > 0
       THEN /\ dimensions' = Dims(s[1], s[2])
            /\ Rerender(filterMainstream, Dims(s[1], s[2]), selectedId, {"dimensions"})
       ELSE /\ simulations' = NothingHalted(simulations)
            /\ UNCHANGED <<data, dimensions, scene, prevScene, layoutRuns, timers,
                           tooltips, hover, drag, pinned, moved, zoom>>
    /\ lastClick' = NoClick
    /\ UNCHANGED <<tab, graphView, selectedId, filterMainstream, engine, expandedId>>

\* the "Hide 1M+ followers" checkbox
SetFilterMainstream ==
    /\ engine # NoEngine
    /\ drag.node = Null
    /\ layoutRuns < MaxLayoutRuns
    /\ filterMainstream' = ~filterMainstream
    /\ Rerender(~filterMainstream, dimensions, selectedId, {"filterMainstream"})
    /\ lastClick' = NoClick
    /\ UNCHANGED <<tab, graphView, selectedId, engine, dimensions, observed, expandedId>>

\* a click on drawn node n: the listener calls onSelectNode, Home stores the id
ClickNode(n) ==
    /\ engine # NoEngine
    /\ drag.node = Null
    /\ scene.drawn
    /\ n \in SeqToSet(scene.nodes)
    /\ layoutRuns < MaxLayoutRuns
    /\ LET calls == NodeClickCalls(engine, ClickSees(engine, scene, selectedId), n)
           call == calls[Len(calls)]
       IN /\ selectedId' = call
          /\ lastClick' = [op |-> "click", id |-> n, before |-> selectedId,
                           call |-> call, calls |-> calls]
          /\ expandedId' = ExpandedAfterEffect(call,
                               IF call # selectedId THEN {"selectedId"} ELSE {}, expandedId)
          /\ Rerender(filterMainstream, dimensions, call,
                      IF call # selectedId THEN {"selectedId"} ELSE {})
    /\ UNCHANGED <<tab, graphView, filterMainstream, engine, dimensions, observed>>

ForceEngines == {"network", "similarity", "clusters"}

\* the simulations whose d3 timer is alive
TickingSimulations ==
    (IF scene.simulation = "running" THEN {"scene"} ELSE {})
        \cup (IF simulations.detached > 0 THEN {"detached"} ELSE {})

\* one tick of a running force simulation: alpha moves towards alphaTarget
\* and the timer stops once alpha is below alphaMin, which it never is while
\* the target is 0.3; the tick listener then draws every node at its x / y,
\* a pinned node at its fx / fy
PointerPins == {p[1] : p \in {q \in pinned : q[2] = "pointer"}}

Tick ==
    /\ \E sim \in TickingSimulations :
          /\ scene' = IF sim = "scene" /\ scene.alphaTarget = 0
                      THEN [scene EXCEPT !.ticks = @ + 1,
                                         !.simulation = IF scene.ticks + 1 >= SettleTicks
                                                        THEN "settled" ELSE "running"]
                      ELSE scene
          /\ moved' = IF sim = "scene"
                      THEN [data |-> PointerPins, drawn |-> PointerPins]
                      ELSE moved
    /\ lastClick' = NoClick
    /\ simulations' = NothingHalted(simulations)
    /\ UNCHANGED <<data, tab, graphView, selectedId, filterMainstream, engine,
                   dimensions, observed, prevScene, layoutRuns, timers, tooltips,
                   expandedId, hover, drag, pinned, zoom>>

\* the engines that bind d3.drag() to their node groups
DragEngines == ForceEngines \cup {"bipartite"}

\* drag "start" in the force-directed engines:
\* if (!event.active) simulation.alphaTarget(0.3).restart()
HeatSimulation(e, sc) ==
    IF e \in ForceEngines
    THEN [sc EXCEPT !.ticks = 0, !.simulation = "running", !.alphaTarget = 3]
    ELSE sc

\* faulty variant: the end listener leaves the alpha target raised
CoolSimulationNever(e, sc) == sc

\* drag "end": if (!event.active) simulation.alphaTarget(0)
CoolSimulation(e, sc) ==
    IF e \in ForceEngines THEN [sc EXCEPT !.alphaTarget = 0] ELSE sc

\* faulty variant: the end listener leaves fx / fy set
UnpinNever(p, n) == p

\* drag "end": d.fx = null; d.fy = null
Unpin(p, n) == {q \in p : q[1] # n}

\* drag "start" on drawn node n, the node the pointer is over, with no other
\* gesture active: d.fx = d.x; d.fy = d.y
DragStart(n) ==
    /\ engine \in DragEngines
    /\ scene.drawn
    /\ n \in SeqToSet(scene.nodes)
    /\ hover.node = n
    /\ drag.node = Null
    /\ Cardinality(moved.data \cup moved.drawn) < MaxMoved
    /\ drag' = [node |-> n, stale |-> FALSE]
    /\ pinned' = Unpin(pinned, n) \cup {<<n, "start">>}
    /\ scene' = HeatSimulation(engine, scene)
    /\ lastClick' = NoClick
    /\ simulations' = NothingHalted(simulations)
    /\ UNCHANGED <<data, tab, graphView, selectedId, filterMainstream, engine,
                   dimensions, observed, prevScene, layoutRuns, timers, tooltips,
                   expandedId, hover, moved, zoom>>

\* the node group the bipartite drag listener translates to the pointer:
\* event.sourceEvent.target.closest("g.node"), the group of the element the
\* mouse is over (none over empty space)
TranslatedGroup(over) == IF over = Null THEN {} ELSE {over}

\* drag "drag", the mouse having moved with the button down: d.fx = event.x;
\* d.fy = event.y; the bipartite engine also sets d.x, d.y and moves a group
\* by hand.  A gesture whose pass was cleaned up writes to the node copies of
\* that pass.
DragMove ==
    /\ drag.node # Null
    /\ Cardinality(moved.data \cup moved.drawn \cup TranslatedGroup(hover.node)
                       \cup {drag.node}) <= MaxMoved
    /\ pinned' = IF drag.stale THEN pinned
                 ELSE Unpin(pinned, drag.node) \cup {<<drag.node, "pointer">>}
    /\ moved' = IF engine = "bipartite"
                THEN [data |-> IF drag.stale THEN moved.data
                               ELSE moved.data \cup {drag.node},
                      drawn |-> moved.drawn \cup TranslatedGroup(hover.node)]
                ELSE moved
    /\ lastClick' = NoClick
    /\ simulations' = NothingHalted(simulations)
    /\ UNCHANGED <<data, tab, graphView, selectedId, filterMainstream, engine,
                   dimensions, observed, scene, prevScene, layoutRuns, timers,
                   tooltips, expandedId, hover, drag, zoom>>

\* drag "end": the button is released
DragEnd ==
    /\ drag.node # Null
    /\ drag' = NoDrag
    /\ pinned' = IF drag.stale THEN pinned ELSE Unpin(pinned, drag.node)
    /\ scene' = IF drag.stale THEN scene ELSE CoolSimulation(engine, scene)
    /\ lastClick' = NoClick
    /\ simulations' = NothingHalted(simulations)
    /\ UNCHANGED <<data, tab, graphView, selectedId, filterMainstream, engine,
                   dimensions, observed, prevScene, layoutRuns, timers, tooltips,
                   expandedId, hover, moved, zoom>>

\* the pointer leaves the node it was over and enters the element of node
\* `target` (Null: empty space): the browser delivers mouseleave to the old
\* node before mouseenter / mouseover to the new one
PointerMoves(target) ==
    /\ engine # NoEngine
    /\ scene.drawn
    /\ target \in SeqToSet(scene.nodes) \cup {Null}
    /\ target # hover.node
    /\ hover' = IF target = Null THEN hideTooltip(hover)
                ELSE showTooltip(engine, data, scene.edges,
                                 IF hover.node # Null THEN hideTooltip(hover) ELSE hover,
                                 target)
    /\ lastClick' = NoClick
    /\ simulations' = NothingHalted(simulations)
    /\ UNCHANGED <<data, tab, graphView, selectedId, filterMainstream, engine,
                   dimensions, observed, scene, prevScene, layoutRuns, timers,
                   tooltips, expandedId, drag, pinned, moved, zoom>>

\* a wheel or pan gesture on the svg: the zoom listener sets the container's
\* transform
UserZoom ==
    /\ engine # NoEngine
    /\ scene.drawn
    /\ drag.node = Null
    /\ zoom' = "user"
    /\ lastClick' = NoClick
    /\ simulations' = NothingHalted(simulations)
    /\ UNCHANGED <<data, tab, graphView, selectedId, filterMainstream, engine,
                   dimensions, observed, scene, prevScene, layoutRuns, timers,
                   tooltips, expandedId, hover, drag, pinned, moved>>

\* a pending auto-fit callback comes due and runs its zoom transition; the
\* callback of a cleaned-up pass drives the zoom behaviour of that pass,
\* whose listener transforms a container that is no longer in the document
AutoFitFires(k) ==
    /\ k \in timers
    /\ timers' = timers \ {k}
    /\ zoom' = IF k = "live" THEN "fit" ELSE zoom
    /\ lastClick' = NoClick
    /\ simulations' = NothingHalted(simulations)
    /\ UNCHANGED <<data, tab, graphView, selectedId, filterMainstream, engine,
                   dimensions, observed, scene, prevScene, layoutRuns, tooltips,
                   expandedId, hover, drag, pinned, moved>>

\* BipartiteGraph: a click on empty space reaches the root listener (node
\* clicks stop propagation) and calls onSelectNode(null)
ClickBackground ==
    /\ HasCanvasListener(engine)
    /\ drag.node = Null
    /\ scene.drawn
    /\ selectedId' = Null
    /\ lastClick' = [op |-> "canvas", before |-> selectedId, calls |-> <<Null>>]
    /\ UNCHANGED expandedId
    /\ Rerender(filterMainstream, dimensions, Null,
                IF selectedId # Null THEN {"selectedId"} ELSE {})
    /\ UNCHANGED <<tab, graphView, filterMainstream, engine, dimensions, observed>>

\* NetworkList: a click on the card of recommendation u, one of the cards the
\* filter leaves in the list
ListClick(u) ==
    /\ tab = "network"
    /\ u \in SeqToSet(Usernames(FilterRecs(data.recommendations, filterMainstream)))
    /\ layoutRuns < MaxLayoutRuns
    /\ LET isExpanded == expandedId = u
           call == IF isExpanded THEN Null ELSE u
           changed == IF call # selectedId THEN {"selectedId"} ELSE {}
       IN /\ selectedId' = call
          /\ expandedId' = ExpandedAfterEffect(call, changed, call)
          /\ lastClick' = [op |-> "list", id |-> u, before |-> selectedId,
                           call |-> call, calls |-> <<call>>]
          /\ Rerender(filterMainstream, dimensions, call, changed)
    /\ UNCHANGED <<tab, graphView, filterMainstream, engine, dimensions, observed>>

\* Home: the People / Network tab buttons
SetTab(t) ==
    /\ t # tab
    /\ tab' = t
    /\ IF t = "network" THEN MountEngineAs(graphView) ELSE UnmountEngineAs
    /\ expandedId' = IF t = "network" THEN ExpandedAfterEffect(selectedId, AllDeps, Null)
                      ELSE Null
    /\ lastClick' = NoClick
    /\ UNCHANGED <<graphView, selectedId, filterMainstream>>

\* Home: the graph view sub-tabs
SetGraphView(v) ==
    /\ tab = "network"
    /\ v # graphView
    /\ graphView' = v
    /\ MountEngineAs(v)
    /\ lastClick' = NoClick
    /\ UNCHANGED <<tab, selectedId, filterMainstream, expandedId>>

\* an engine component mounted by a parent that passes it the props
MountEngine(e) ==
    /\ engine = NoEngine
    /\ MountEngineAs(e)
    /\ lastClick' = NoClick
    /\ UNCHANGED <<tab, graphView, selectedId, filterMainstream, expandedId>>

UnmountEngine ==
    /\ engine # NoEngine
    /\ UnmountEngineAs
    /\ lastClick' = NoClick
    /\ UNCHANGED <<tab, graphView, selectedId, filterMainstream, expandedId>>

---------------------------------------------------------------------------
(* Specifications *)

\* a dataset standing for data/graph_data.json, which Home imports
HomeData ==
    {GraphData(SubSeq(AllNodes, 1, 4), EdgeList,
               <<Rec("r1", 500, 45, <<"h1", "h2", "h3", "h4", "h5">>),
                 Rec("r7", 800, 46, <<"h5", "h4", "h3", "h2", "h1", "h6">>),
                 Rec("r3", 1000000, 39, <<"h7", "h5", "h4", "h3", "h2", "h1">>)>>)}

InitCommon ==
    /\ selectedId = Null
    /\ filterMainstream = TRUE
    /\ tab = "people"
    /\ graphView = "similarity"
    /\ engine = NoEngine
    /\ dimensions = Dims(0, 0)
    /\ observed = NoSize
    /\ scene = EmptyScene
    /\ prevScene = EmptyScene
    /\ layoutRuns = 0
    /\ lastClick = NoClick
    /\ timers = {}
    /\ simulations = NoSimulations
    /\ tooltips = NoTooltips
    /\ expandedId = Null
    /\ hover = NoHover
    /\ drag = NoDrag
    /\ pinned = {}
    /\ moved = NoMoved
    /\ zoom = "identity"

Init == data \in HomeData /\ InitCommon

Next ==
    \/ \E t \in {"people", "network"} : SetTab(t)
    \/ \E v \in GraphViews : SetGraphView(v)
    \/ SetFilterMainstream
    \/ \E s \in Sizes : ResizeObserved(s)
    \/ \E n \in SeqToSet(IdOrder) : ClickNode(n)
    \/ ClickBackground
    \/ \E u \in SeqToSet(IdOrder) : ListClick(u)
    \/ Tick
    \/ \E k \in {"live", "stale"} : AutoFitFires(k)

Spec == Init /\ [][Next]_vars

InitLayout == data \in LayoutData /\ InitCommon

NextLayout ==
    \/ \E e \in Engines : MountEngine(e)
    \/ UnmountEngine
    \/ SetFilterMainstream
    \/ \E s \in Sizes : ResizeObserved(s)

SpecLayout == InitLayout /\ [][NextLayout]_vars

\* two small datasets for the pointer: hubs h1 and h5 (h5 follows no
\* recommendation) with recommendations r6 and r3 (mainstream), and the same
\* accounts with no follow relation at all
PointerData ==
    {GraphData(<<Node("h1", "hub", 2500000, 0), Node("h5", "hub", 30, 0),
                 RecNodeOf(Rec("r6", 1500, 20, <<>>)),
                 RecNodeOf(Rec("r3", 1000000, 39, <<>>))>>,
               edges,
               <<Rec("r6", 1500, 20, IF linked THEN <<"h1", "hx">> ELSE <<>>),
                 Rec("r3", 1000000, 39, IF linked THEN <<"h1">> ELSE <<>>)>>) :
        <<edges, linked>> \in {<<<<Edge("h1", "r6", "hub_follows"),
                                    Edge("h1", "r3", "hub_follows")>>, TRUE>>,
                                 <<<<>>, FALSE>>}}

InitPointer == data \in PointerData /\ InitCommon

\* hover and drag on the nodes of a mounted engine, between redraws
NextPointer ==
    \/ \E e \in Engines : MountEngine(e)
    \/ SetFilterMainstream
    \/ \E s \in Sizes : ResizeObserved(s)
    \/ \E t \in SeqToSet(IdOrder) \cup {Null} : PointerMoves(t)
    \/ \E n \in SeqToSet(IdOrder) : DragStart(n)
    \/ DragMove
    \/ DragEnd
    \/ Tick

SpecPointer == InitPointer /\ [][NextPointer]_vars

\* d3's timer calls the tick of a running simulation on every animation frame
SpecPointerFair == InitPointer /\ [][NextPointer]_vars /\ WF_vars(Tick)

\* clicks, zoom gestures and the auto-fit timer on a mounted engine
NextZoom ==
    \/ \E e \in Engines : MountEngine(e)
    \/ SetFilterMainstream
    \/ \E s \in Sizes : ResizeObserved(s)
    \/ \E n \in SeqToSet(IdOrder) : ClickNode(n)
    \/ UserZoom
    \/ \E k \in {"live", "stale"} : AutoFitFires(k)

SpecZoom == InitPointer /\ [][NextZoom]_vars

---------------------------------------------------------------------------
(* Properties *)

EdgeEngines == {"network", "similarity", "clusters", "bipartite"}

\* the recommendations the mainstream filter lets through, as indices of
\* data.recommendations
FilteredRecIndices ==
    {i \in DOMAIN data.recommendations :
        ~filterMainstream \/ data.recommendations[i].followers_count < 1000000}

\* followed_by(A) \cap followed_by(B) for two recommendations given by index
Intersection(i, j) ==
    SeqToSet(data.recommendations[i].followed_by)
        \cap SeqToSet(data.recommendations[j].followed_by)

\* the rendered edges joining x and y, in either direction
EdgesBetween(x, y) ==
    {k \in DOMAIN scene.edges :
        \/ scene.edges[k].source = x /\ scene.edges[k].target = y
        \/ scene.edges[k].source = y /\ scene.edges[k].target = x}

\* a step in which the mounted engine sees a new selectedId and nothing else
SelectionOnlyStep ==
    /\ engine # NoEngine
    /\ engine' = engine
    /\ scene.drawn
    /\ selectedId' # selectedId
    /\ data' = data
    /\ filterMainstream' = filterMainstream
    /\ dimensions' = dimensions

\* C1: in every engine a change of selectedId alone only restyles strokes: the
\* main layout pass is not re-run (no new pass is counted, the bound edges are
\* left alone), the simulation is not restarted and positions are not reset.
C1_SelectionOnlyRestyles ==
    [][SelectionOnlyStep =>
          /\ layoutRuns' = layoutRuns
          /\ scene'.edges = scene.edges
          /\ scene'.simulation = scene.simulation
          /\ scene'.ticks = scene.ticks
          /\ scene'.positionedNodes = scene.positionedNodes]_vars

\* C2: a click on node n calls onSelectNode(null) when selectedId = n and
\* onSelectNode(n) otherwise, the call becomes the selection, and a second
\* click on the same node after a click made from no selection returns
\* selectedId to null.
C2_ClickToggles ==
    [][lastClick'.op = "click" =>
          /\ lastClick'.call = (IF lastClick'.id = selectedId THEN Null ELSE lastClick'.id)
          /\ selectedId' = lastClick'.call
          /\ (selectedId' # Null => selectedId' = lastClick'.id)
          /\ (/\ lastClick.op = "click"
              /\ lastClick.before = Null
              /\ lastClick'.id = lastClick.id
              => selectedId' = Null)]_vars

\* a node was clicked while selected, twice in a row from no selection
C2_Witness ==
    /\ lastClick.op = "click"
    /\ lastClick.before = lastClick.id
    /\ selectedId = Null
    /\ engine # NoEngine

\* C3: whenever the mounted engine has drawn its nodes, the selected stroke is
\* on exactly the drawn node whose id is selectedId (on none when it is null).
C3_StrokeOnSelected ==
    scene.drawn =>
        \A n \in DOMAIN scene.stroke : (scene.stroke[n] = "selected") <=> (n = selectedId)

\* C4: NetworkGraph with filterMainstream set draws every node except the
\* recommendation-type nodes with followers_count >= 1,000,000 (center and hub
\* nodes stay whatever their count); with the flag clear it draws every node.
C4_NodeFilter ==
    (engine = "network" /\ scene.drawn) =>
        \A i \in DOMAIN data.nodes :
            (data.nodes[i].id \in SeqToSet(scene.nodes)) <=>
                ~(/\ filterMainstream
                  /\ data.nodes[i].type = "recommendation"
                  /\ data.nodes[i].followers_count >= 1000000)

\* a mainstream recommendation node is removed while a mainstream hub and the
\* mainstream center stay
C4_Witness ==
    /\ engine = "network" /\ scene.drawn /\ filterMainstream
    /\ \E i \in DOMAIN data.nodes :
          /\ data.nodes[i].type = "recommendation"
          /\ data.nodes[i].followers_count = 1000000
          /\ data.nodes[i].id \notin SeqToSet(scene.nodes)
    /\ \E i \in DOMAIN data.nodes :
          /\ data.nodes[i].type = "hub"
          /\ data.nodes[i].followers_count >= 1000000
          /\ data.nodes[i].id \in SeqToSet(scene.nodes)
    /\ \E i \in DOMAIN data.nodes :
          /\ data.nodes[i].type = "center"
          /\ data.nodes[i].followers_count >= 1000000
          /\ data.nodes[i].id \in SeqToSet(scene.nodes)

\* C5: in every engine that renders edges, every rendered edge has both of
\* its endpoints among the rendered nodes, dangling references included.
C5_EdgesWithinNodes ==
    (engine \in EdgeEngines /\ scene.drawn) =>
        \A k \in DOMAIN scene.edges :
            /\ scene.edges[k].source \in SeqToSet(scene.nodes)
            /\ scene.edges[k].target \in SeqToSet(scene.nodes)

\* NetworkGraph has drawn edges of a dataset one of whose edges names an
\* absent node and another a filtered-out node
C5_Witness ==
    /\ engine = "network" /\ scene.drawn /\ filterMainstream
    /\ scene.edges # <<>>
    /\ \E i \in DOMAIN data.edges :
          data.edges[i].target \notin {data.nodes[k].id : k \in DOMAIN data.nodes}
    /\ \E i \in DOMAIN data.edges :
          /\ data.edges[i].target \in {data.nodes[k].id : k \in DOMAIN data.nodes}
          /\ data.edges[i].target \notin SeqToSet(scene.nodes)

\* C6: the similarity derivation is symmetric and deduplicated: two filtered
\* recommendations are joined by at most one edge, and its weight is the number
\* of distinct hubs in both followed_by lists, whichever comes first in the list.
C6_SimilaritySymmetric ==
    (engine = "similarity" /\ scene.drawn) =>
        \A i, j \in FilteredRecIndices :
            i # j =>
                LET between == EdgesBetween(data.recommendations[i].username,
                                            data.recommendations[j].username)
                IN /\ Cardinality(between) <= 1
                   /\ \A k \in between :
                         scene.edges[k].weight = Cardinality(Intersection(i, j))

\* edges were derived both for a longer list met before a shorter one and for
\* a shorter one met before a longer one
C6_Witness ==
    /\ engine = "similarity" /\ scene.drawn
    /\ \E i, j \in FilteredRecIndices :
          /\ i < j
          /\ Len(data.recommendations[i].followed_by) > Len(data.recommendations[j].followed_by)
          /\ EdgesBetween(data.recommendations[i].username,
                          data.recommendations[j].username) # {}
    /\ \E i, j \in FilteredRecIndices :
          /\ i < j
          /\ Len(data.recommendations[i].followed_by) < Len(data.recommendations[j].followed_by)
          /\ EdgesBetween(data.recommendations[i].username,
                          data.recommendations[j].username) # {}

\* C7: two filtered recommendations are joined by a similarity edge exactly
\* when their followed_by lists share at least 5 hubs.
C7_SimilarityThreshold ==
    (engine = "similarity" /\ scene.drawn) =>
        \A i, j \in FilteredRecIndices :
            i # j =>
                (EdgesBetween(data.recommendations[i].username,
                              data.recommendations[j].username) # {}
                    <=> Cardinality(Intersection(i, j)) >= 5)

\* one drawn graph holds a pair sharing 4 hubs without an edge and a pair
\* sharing exactly 5 hubs with one
C7_Witness ==
    /\ engine = "similarity" /\ scene.drawn
    /\ \E i, j \in FilteredRecIndices :
          /\ Cardinality(Intersection(i, j)) = 4
          /\ EdgesBetween(data.recommendations[i].username,
                          data.recommendations[j].username) = {}
    /\ \E i, j \in FilteredRecIndices :
          /\ i # j
          /\ Cardinality(Intersection(i, j)) = 5
          /\ EdgesBetween(data.recommendations[i].username,
                          data.recommendations[j].username) # {}

\* the recommendations whose followed_by holds both x and y
CoFollowers(x, y) ==
    {i \in DOMAIN data.recommendations :
        {x, y} \subseteq SeqToSet(data.recommendations[i].followed_by)}

\* C8: for every pair of drawn hubs the co-follow weight is the number of
\* recommendations whose followed_by holds both, in whichever order, and the
\* pair is an edge exactly when that number is at least 10.
C8_CoFollowWeight ==
    (engine = "clusters" /\ scene.drawn) =>
        \A x, y \in SeqToSet(scene.nodes) :
            x # y =>
                /\ Cardinality(EdgesBetween(x, y)) <= 1
                /\ EdgesBetween(x, y) # {} <=> Cardinality(CoFollowers(x, y)) >= 10
                /\ \A k \in EdgesBetween(x, y) :
                      scene.edges[k].weight = Cardinality(CoFollowers(x, y))

\* an edge of weight exactly 10 counted over lists naming the pair in both
\* orders, next to a co-followed pair that stays below the threshold
C8_Witness ==
    /\ engine = "clusters" /\ scene.drawn
    /\ \E k \in DOMAIN scene.edges : scene.edges[k].weight = 10
    /\ \E i, j \in DOMAIN data.recommendations :
          /\ SubSeq(data.recommendations[i].followed_by, 1, 2) = <<"h1", "h2">>
          /\ SubSeq(data.recommendations[j].followed_by, 1, 2) = <<"h2", "h1">>
    /\ \E x, y \in SeqToSet(scene.nodes) :
          /\ x # y
          /\ Cardinality(CoFollowers(x, y)) \in 1..9
          /\ EdgesBetween(x, y) = {}

\* C9: every filtered recommendation is positioned exactly once, in tier 0 iff
\* hub_count >= 40, tier 1 iff 30 <= hub_count <= 39, tier 2 iff hub_count < 30,
\* and there are as many positioned nodes as filtered recommendations.
C9_TierBucketing ==
    (engine = "rings" /\ scene.drawn) =>
        /\ Len(scene.positionedNodes) = Cardinality(FilteredRecIndices)
        /\ \A i \in FilteredRecIndices :
              LET rec == data.recommendations[i]
                  hits == {p \in DOMAIN scene.positionedNodes :
                              scene.positionedNodes[p].username = rec.username}
              IN /\ Cardinality(hits) = 1
                 /\ \A p \in hits :
                       LET tier == scene.positionedNodes[p].ringIndex
                       IN /\ tier \in {0, 1, 2}
                          /\ tier = 0 <=> rec.hub_count >= 40
                          /\ tier = 1 <=> (30 <= rec.hub_count /\ rec.hub_count <= 39)
                          /\ tier = 2 <=> rec.hub_count < 30

\* the boundary counts 40, 30 and 29 are positioned in tiers 0, 1 and 2
C9_Witness ==
    /\ engine = "rings" /\ scene.drawn
    /\ \E p, q, t \in DOMAIN scene.positionedNodes :
          /\ scene.positionedNodes[p].hub_count = 40 /\ scene.positionedNodes[p].ringIndex = 0
          /\ scene.positionedNodes[q].hub_count = 30 /\ scene.positionedNodes[q].ringIndex = 1
          /\ scene.positionedNodes[t].hub_count = 29 /\ scene.positionedNodes[t].ringIndex = 2

\* two consecutive layout passes of the rings engine over the same filtered
\* list and viewport
SameInputPasses ==
    /\ engine = "rings"
    /\ scene.drawn /\ prevScene.drawn
    /\ scene.nodes = prevScene.nodes
    /\ scene.width = prevScene.width
    /\ scene.height = prevScene.height

C11_NoStaleAutoFit == "stale" \notin timers

\* C12: in the force-directed engines the simulation of a cleaned-up pass
\* performs no further tick: no simulation of a cleaned-up pass is left
\* running, so the only simulation that can tick is the one of the current pass.
C12_CleanupStopsSimulation == simulations.detached = 0

\* a pass was cleaned up while its simulation was running, and the pass that
\* replaced it runs the only simulation
C12_Witness ==
    /\ engine \in ForceEngines
    /\ simulations.halted
    /\ layoutRuns >= 2
    /\ scene.simulation = "running"
    /\ TickingSimulations = {"scene"}

TooltipCount == tooltips.anonymous + tooltips.bipartite

\* C13: at most one tooltip element appended by the graph engines is in the
\* document body at any time, and none is once the engine is unmounted.
C13_OneTooltip ==
    /\ TooltipCount <= 1
    /\ engine = NoEngine => TooltipCount = 0

\* the layout re-ran in a mounted engine and the body still holds one tooltip
C13_Witness ==
    /\ engine # NoEngine
    /\ layoutRuns >= 2
    /\ TooltipCount = 1

\* the first non-zero observation of a mounted engine is 800 x 600: until this
\* step the observer reported nothing or 0 x 0 and dimensions kept its initial value
FirstObservation800x600 ==
    /\ engine # NoEngine
    /\ engine' = engine
    /\ observed \in {NoSize, <<0, 0>>}
    /\ dimensions = InitialDimensions(engine)
    /\ observed' = <<800, 600>>

\* C14: for an engine mounted in a 0 x 0 container, the later size observation
\* of 800 x 600 triggers exactly one layout computation, neither zero nor
\* several.
C14_OneLayoutPerObservation ==
    [][FirstObservation800x600 => layoutRuns' = layoutRuns + 1]_vars

\* an engine that waited at 0 x 0 has laid out once, at the observed 800 x 600
C14_Witness ==
    /\ engine \notin {NoEngine, "bipartite"}
    /\ observed = <<800, 600>>
    /\ layoutRuns = 1
    /\ scene.drawn
    /\ scene.width = 800
    /\ scene.height = 600

\* C15: no engine computes a layout before a non-zero container size has been
\* observed: every drawn scene was laid out with a width and a height that the
\* observer reported and that are both positive.
C15_LayoutUsesObservedSize ==
    scene.drawn =>
        /\ observed # NoSize
        /\ <<scene.width, scene.height>> \in Sizes
        /\ scene.width > 0
        /\ scene.height > 0

\* the ids of the hub nodes of the dataset
HubIds == {n.id : n \in {m \in SeqToSet(data.nodes) : m.type = "hub"}}

\* C16: the mainstream flag never removes a hub node: the hub-cluster engine
\* and the bipartite engine both show every hub of the dataset, whatever the
\* flag, so their hub sets are equal.
C16_FilterSparesHubs ==
    (engine \in {"clusters", "bipartite"} /\ scene.drawn) =>
        HubIds = {n \in SeqToSet(scene.nodes) : n \notin SeqToSet(Usernames(data.recommendations))}

\* the input the mounted engine lays out is empty: it draws no node, or the
\* mainstream filter lets no recommendation through
EmptyInput ==
    \/ scene.nodes = <<>>
    \/ FilterRecs(data.recommendations, filterMainstream) = <<>>

\* C17: a pass over an empty filtered node or recommendation set completes
\* with an empty scene: the similarity derivation and the hub co-follow
\* derivation yield no edge, the maximum-weight divisor is still at least 1,
\* and no drawn edge refers to an absent node.
C17_EmptyInputDraws ==
    (scene.drawn /\ EmptyInput) =>
        /\ engine = "similarity" => scene.edges = <<>>
        /\ (engine = "clusters" /\ (scene.nodes = <<>> \/ data.recommendations = <<>>))
              => scene.edges = <<>>
        /\ engine \in WeightedEngines => scene.maxWeight >= 1
        /\ \A i \in DOMAIN scene.edges :
              /\ scene.edges[i].source \in SeqToSet(scene.nodes)
              /\ scene.edges[i].target \in SeqToSet(scene.nodes)

\* the hub-cluster engine drew a dataset that leaves it no hub
C17_Witness ==
    /\ engine = "clusters"
    /\ scene.drawn
    /\ scene.nodes = <<>>
    /\ scene.edges = <<>>
    /\ scene.maxWeight = 1
    /\ data.recommendations # <<>>

\* C18: the loaded dataset is immutable for the session: no step of any engine
\* (layout pass, tick, drag, sort, filter, click) changes data.nodes,
\* data.edges or data.recommendations.
C18_DataImmutable == [][data' = data]_vars

\* the rings engine, reading data.recommendations itself (flag off), sorted a
\* tier into another order than the dataset's, and the dataset is as loaded
C18_Witness ==
    /\ engine = "rings"
    /\ scene.drawn
    /\ ~filterMainstream
    /\ [i \in DOMAIN scene.positionedNodes |-> scene.positionedNodes[i].username]
          # Usernames(data.recommendations)
    /\ data \in HomeData

\* C19: in the bipartite engine a click on empty canvas calls
\* onSelectNode(null), and a click on a node produces exactly one onSelectNode
\* call, the toggle for that node: the canvas handler does not fire as well.
C19_BipartiteClickCalls ==
    engine = "bipartite" =>
        /\ lastClick.op = "canvas" => (lastClick.calls = <<Null>> /\ selectedId = Null)
        /\ lastClick.op = "click" =>
              /\ lastClick.calls = <<IF lastClick.id = lastClick.before
                                     THEN Null ELSE lastClick.id>>
              /\ selectedId = lastClick.calls[1]

\* a bipartite node was clicked while another id was selected, and it is now
\* the selected one
C19_Witness ==
    /\ engine = "bipartite"
    /\ lastClick.op = "click"
    /\ lastClick.before \notin {Null, lastClick.id}
    /\ selectedId = lastClick.id

\* C20: in the list view the shared selected id toggles on click, whatever
\* list and graph clicks came before: a click on the card of the selected
\* recommendation sets selectedId to null, a click on any other card sets it
\* to that card's id.
C20_ListClickToggles ==
    lastClick.op = "list" =>
        selectedId = IF lastClick.id = lastClick.before THEN Null ELSE lastClick.id

\* C21: follower counts are formatted the same way in every view: counts of
\* 1,000,000 and more as millions with one decimal and "M", counts from 1,000
\* to 999,999 as thousands with one decimal and "K", smaller counts as the
\* literal integer.  Stated of the tooltip of the hovered node.
C21_FollowersFormat ==
    hover.node # Null =>
        LET n == FollowersCount(engine, data, hover.node)
        IN hover.followers =
              IF n >= 1000000 THEN ToFixed(n, 1000000, 1) \o "M"
              ELSE IF n >= 1000 THEN ToFixed(n, 1000, 1) \o "K"
              ELSE ToString(n)

\* the edges of scene sc with both ends in S
EdgesAmong(sc, S) ==
    {sc.edges[k] : k \in {i \in DOMAIN sc.edges :
                            sc.edges[i].source \in S /\ sc.edges[i].target \in S}}

\* a step in which the mounted clusters engine redraws for a toggled filter
ClustersFilterStep ==
    /\ engine = "clusters" /\ engine' = "clusters"
    /\ scene.drawn /\ scene'.drawn
    /\ filterMainstream' # filterMainstream
    /\ data' = data

\* C22: in the clusters engine the hub co-follow edges are derived from the
\* full recommendation list, so toggling filterMainstream leaves them
\* unchanged: the toggle only changes which hubs are drawn (the mainstream
\* hubs go or come back) and keeps the derived edges between drawn hubs, with
\* their weights.
C22_FilterKeepsHubEdges ==
    [][ClustersFilterStep =>
          LET shown == SeqToSet(scene.nodes)
              shown2 == SeqToSet(scene'.nodes)
              hidden == IF filterMainstream' THEN shown \ shown2 ELSE shown2 \ shown
          IN /\ EdgesAmong(scene, shown \cap shown2) = EdgesAmong(scene', shown \cap shown2)
             /\ EdgesAmong(scene', shown2) = SeqToSet(scene'.edges)
             /\ (shown \ shown2) \cup (shown2 \ shown) = hidden
             /\ \A i \in DOMAIN data.nodes :
                   data.nodes[i].id \in hidden =>
                       data.nodes[i].followers_count >= 1000000]_vars

\* the filter was switched on over a drawn pair of hubs that is co-followed by
\* at least 10 recommendations, fewer than 10 of them below the mainstream bound
C22_Witness ==
    /\ engine = "clusters" /\ scene.drawn
    /\ layoutRuns >= 2
    /\ filterMainstream
    /\ \E k \in DOMAIN scene.edges :
          Cardinality({i \in CoFollowers(scene.edges[k].source, scene.edges[k].target) :
                          data.recommendations[i].followers_count < 1000000}) < 10
    /\ \E i \in DOMAIN data.nodes :
          data.nodes[i].type = "hub" /\ data.nodes[i].id \notin SeqToSet(scene.nodes)

\* a gesture on a node of the drawn pass is in progress
DragActive == drag.node # Null /\ ~drag.stale

\* C23: in the force-directed engines a drag start raises the alpha target
\* and leaves the simulation running, the simulation stays running while the
\* drag is active, the release sets the alpha target to 0, and from any state
\* with no gesture in progress the simulation settles unless a new drag
\* begins; a layout with zero edges settles as well.
C23_DragHeatsThenSettles ==
    /\ [][(engine \in ForceEngines /\ drag.node = Null /\ drag'.node # Null) =>
             scene'.simulation = "running" /\ scene'.alphaTarget > 0]_vars
    /\ []((engine \in ForceEngines /\ DragActive) =>
             scene.simulation = "running" /\ scene.alphaTarget > 0)
    /\ [][(engine \in ForceEngines /\ DragActive /\ drag'.node = Null) =>
             scene'.alphaTarget = 0]_vars
    /\ (engine \in ForceEngines /\ scene.drawn /\ drag.node = Null)
          ~> (scene.simulation = "settled" \/ drag.node # Null)
    /\ (engine \in ForceEngines /\ scene.drawn /\ scene.edges = <<>> /\ drag.node = Null)
          ~> (scene.simulation = "settled" \/ drag.node # Null)

\* a node was dragged to the pointer in a layout with zero edges and has just
\* been released: the simulation is running with its alpha target back at 0
C23_Witness ==
    /\ engine \in ForceEngines
    /\ scene.drawn /\ scene.edges = <<>>
    /\ drag.node = Null
    /\ moved.data # {}
    /\ scene.simulation = "running"
    /\ scene.alphaTarget = 0

\* C24: in every engine a node has fx / fy set only while it is being
\* dragged: the drag start pins it at its current position, a drag move pins
\* it at the pointer, and the drag end clears the pin, so that no node is
\* pinned when no gesture on a drawn node is in progress.
C24_PinnedOnlyWhileDragged ==
    /\ [](IF DragActive
          THEN pinned \in {{<<drag.node, "start">>}, {<<drag.node, "pointer">>}}
          ELSE pinned = {})
    /\ [][(drag.node = Null /\ drag'.node # Null) =>
             pinned' = {<<drag'.node, "start">>}]_vars
    /\ [][(DragActive /\ drag' = drag /\ pinned' # pinned) =>
             pinned' = {<<drag.node, "pointer">>}]_vars

\* a drag that moved a node was completed: the gesture is over, the node is
\* where the pointer left it and nothing is pinned
C24_Witness ==
    /\ engine \in DragEngines
    /\ scene.drawn
    /\ drag.node = Null
    /\ moved.data # {}
    /\ pinned = {}

\* the nodes whose data position or drawn position changes in a step
PositionChanges ==
    (moved'.data \ moved.data) \cup (moved.data \ moved'.data)
        \cup (moved'.drawn \ moved.drawn) \cup (moved.drawn \ moved'.drawn)

\* C25: the bipartite engine's seeding simulation has made exactly 300 ticks
\* when the pass draws and is stopped ever after; while the drawing stands a
\* step changes the position of no node but the dragged one, and the release
\* leaves the dragged node where it was dropped.
C25_BipartiteDragMovesOneNode ==
    /\ []((engine = "bipartite" /\ scene.drawn) =>
             scene.ticks = 300 /\ scene.simulation = "stopped")
    /\ [][(engine = "bipartite" /\ scene.drawn /\ scene' = scene) =>
             /\ PositionChanges \subseteq {drag.node}
             /\ drag'.node = Null => PositionChanges = {}]_vars

\* adjMap.get(id) as the hover listener reads it: the indices under id, none
\* when the index has no entry for id
AdjLookup(id) ==
    IF id \in DOMAIN AdjMap(scene.edges) THEN AdjMap(scene.edges)[id] ELSE {}

\* C26: in the bipartite engine an edge (hub h, recommendation r) exists if
\* and only if r survives the mainstream filter, h is in r.followed_by and h
\* is a hub node of the dataset; each such pair yields one edge, and the
\* adjacency index gives for every drawn node id exactly the indices of the
\* edges incident to it.
C26_BipartiteEdges ==
    (engine = "bipartite" /\ scene.drawn) =>
        /\ \A h \in SeqToSet(IdOrder), i \in DOMAIN data.recommendations :
              LET r == data.recommendations[i]
                  between == {k \in DOMAIN scene.edges :
                                 scene.edges[k].source = h
                                     /\ scene.edges[k].target = r.username}
              IN /\ between # {} <=>
                        /\ i \in FilteredRecIndices
                        /\ h \in SeqToSet(r.followed_by)
                        /\ \E j \in DOMAIN data.nodes :
                              data.nodes[j].id = h /\ data.nodes[j].type = "hub"
                 /\ Cardinality(between) <= 1
        /\ \A k \in DOMAIN scene.edges :
              \E i \in DOMAIN data.recommendations :
                  scene.edges[k].target = data.recommendations[i].username
        /\ \A id \in SeqToSet(scene.nodes) :
              AdjLookup(id) = {k \in DOMAIN scene.edges :
                                  scene.edges[k].source = id \/ scene.edges[k].target = id}

\* a drawn hub with several edges, a drawn hub with none, a recommendation
\* removed by the filter and a followed_by entry that is not a hub node
C26_Witness ==
    /\ engine = "bipartite" /\ scene.drawn /\ filterMainstream
    /\ \E id \in SeqToSet(scene.nodes) : Cardinality(AdjLookup(id)) >= 2
    /\ \E j \in DOMAIN data.nodes :
          /\ data.nodes[j].type = "hub"
          /\ data.nodes[j].id \notin DOMAIN AdjMap(scene.edges)
    /\ \E i \in DOMAIN data.recommendations :
          /\ i \notin FilteredRecIndices
          /\ data.recommendations[i].followed_by # <<>>
    /\ \E i \in FilteredRecIndices :
          \E h \in SeqToSet(data.recommendations[i].followed_by) :
              \A j \in DOMAIN data.nodes : data.nodes[j].id # h

\* C27: in the bipartite engine, after any sequence of hover, leave, drag and
\* redraw events an edge has non-zero opacity only if it is incident to the
\* node the pointer is over; when no node is hovered every edge has opacity 0.
C27_EdgesShownOnlyForHovered ==
    engine = "bipartite" =>
        /\ \A k \in hover.edges :
              /\ hover.node # Null
              /\ k \in DOMAIN scene.edges
              /\ scene.edges[k].source = hover.node \/ scene.edges[k].target = hover.node
        /\ hover.node = Null => hover.edges = {}

\* after a redraw and a drag the pointer went from a hub whose edges were
\* shown to a hub that has none: no edge is left visible
C27_Witness ==
    /\ engine = "bipartite" /\ scene.drawn
    /\ layoutRuns >= 2
    /\ moved.data # {}
    /\ scene.edges # <<>>
    /\ hover.node = "h5"
    /\ hover.edges = {}

\* the positions of scene.positionedNodes that hold the nodes of a tier
TierPositions(t) ==
    {p \in DOMAIN scene.positionedNodes : scene.positionedNodes[p].ringIndex = t}

\* the place of the recommendation named u in data.recommendations
RecIndex(u) == CHOOSE i \in DOMAIN data.recommendations :
                   data.recommendations[i].username = u

\* C28: in the rings engine the nodes of each tier are in descending order of
\* hub_count, equal counts in the order of the recommendation list, and the
\* k-th node (from 0) of a tier of n nodes is at angular slot k of n, counted
\* clockwise from the top (angle 2*pi*k/n - pi/2); the node of a one-member
\* tier is at the top.
C28_TierOrderAndSlots ==
    (engine = "rings" /\ scene.drawn) =>
        \A t \in 0..2 :
            \A p \in TierPositions(t) :
                LET node == scene.positionedNodes[p]
                    k == Cardinality({q \in TierPositions(t) : q < p})
                IN /\ node.of = Cardinality(TierPositions(t))
                   /\ node.slot = k
                   /\ node.of = 1 => node.slot = 0
                   /\ \A q \in TierPositions(t) :
                         q < p =>
                            LET before == scene.positionedNodes[q]
                            IN \/ before.hub_count > node.hub_count
                               \/ /\ before.hub_count = node.hub_count
                                  /\ RecIndex(before.username) < RecIndex(node.username)

\* a tier of three: the sort moved the smallest count from the front of the
\* list to the last slot and kept the two equal counts in list order
C28_Witness ==
    /\ engine = "rings" /\ scene.drawn
    /\ Cardinality(TierPositions(0)) = 3
    /\ \E p, q, l \in TierPositions(0) :
          /\ p < q /\ q < l
          /\ scene.positionedNodes[p].hub_count = scene.positionedNodes[q].hub_count
          /\ scene.positionedNodes[q].hub_count > scene.positionedNodes[l].hub_count
          /\ scene.positionedNodes[l].slot = 2
          /\ RecIndex(scene.positionedNodes[l].username) = 1

\* the bounds of the node radius in tier t, in tenths of a pixel
MinRadius(t) == RINGS[t + 1].nodeRadius[1] * 10
MaxRadius(t) == RINGS[t + 1].nodeRadius[2] * 10

\* C29: the radius of a node of a concentric tier is the linear interpolation
\* between the tier's minimum and maximum radius by the position of hub_count
\* in the tier's span, the parameter clamped to [0, 1]: it lies within the
\* tier's bounds and does not decrease with hub_count; in tiers 1 and 2 the
\* spans are 30..40 and 20..30; in tier 0, whose span starts at 40 and has a
\* nominal maximum, the radius grows with hub_count until it reaches the
\* tier's maximum, which every count above the nominal maximum gets.
C29_RadiusInterpolation ==
    (engine = "rings" /\ scene.drawn) =>
        \A p \in DOMAIN scene.positionedNodes :
            LET node == scene.positionedNodes[p]
                t == node.ringIndex
                base == IF t = 1 THEN 30 ELSE 20
            IN /\ MinRadius(t) <= node.r /\ node.r <= MaxRadius(t)
               /\ \A q \in TierPositions(t) :
                     scene.positionedNodes[q].hub_count <= node.hub_count =>
                         scene.positionedNodes[q].r <= node.r
               /\ t \in {1, 2} =>
                     node.r * 10 = MinRadius(t) * 10
                                     + Min(10, Max(0, node.hub_count - base))
                                         * (MaxRadius(t) - MinRadius(t))
               /\ t = 0 =>
                     /\ node.hub_count > 40 => node.r > MinRadius(0)
                     /\ \/ node.r = MaxRadius(0)
                        \/ \A q \in TierPositions(0) :
                              scene.positionedNodes[q].hub_count < node.hub_count =>
                                  scene.positionedNodes[q].r < node.r

\* a step of a mounted engine whose drawing stands, with the same data,
\* filter and container size before and after
SameInputsStep ==
    /\ engine # NoEngine /\ engine' = engine
    /\ scene.drawn
    /\ data' = data
    /\ filterMainstream' = filterMainstream
    /\ dimensions' = dimensions
    /\ observed' = observed

\* C30: the automatic fit-to-view is one-time: while the engine stays mounted
\* with unchanged data, filter and container size no step schedules another
\* auto-fit, and the zoom / pan transform changes only by the one pending
\* auto-fit coming due or by the user's own gesture; in particular a click on
\* a node schedules nothing and leaves the transform the user has set.
C30_AutoFitOnce ==
    [][SameInputsStep =>
          /\ timers' \subseteq timers
          /\ \/ zoom' = zoom
             \/ zoom' = "user"
             \/ zoom' = "fit" /\ "live" \in timers /\ "live" \notin timers'
          /\ lastClick'.op = "click" => timers' = timers /\ zoom' = zoom]_vars

====
